---- MODULE Spec2Model ----
(***************************************************************************)
(* A model of the conversation orchestrator of the food carbon-footprint   *)
(* assistant (src/app.py): the CarbonAgent session with its provider-      *)
(* facing history `messages`, its user-facing transcript                   *)
(* `display_history`, the TokenTracker, and the bounded tool loop of       *)
(* _run_one_step_with_tools.                                               *)
(*                                                                         *)
(* Text is modelled as a sequence of parts: the model's answer is          *)
(* <<"text">>, the report and the fallback are their own parts, and string *)
(* concatenation is sequence concatenation.  Tool-call ids are the fresh   *)
(* ids the provider hands out.  The name and the raw arguments of a        *)
(* request are drawn when the loop reads them (app.py 328, 331).           *)
(*                                                                         *)
(* The second part models the catalog matching of                          *)
(* src/tools/rag_food_tool.py: the module-level index `_vectorstore`,      *)
(* _lookup_items_batch and compute_meal_footprint.  JSON text is modelled  *)
(* by the value it parses to; similarities and distances are hundredths,   *)
(* masses are grams and emissions are thousandths of a kg CO2.             *)
(***************************************************************************)
EXTENDS Integers, Sequences, FiniteSets, TLC

VARIABLES
    messages,                \* CarbonAgent.messages (app.py 219)
    display_history,         \* CarbonAgent.display_history (app.py 220)
    token_tracker,           \* CarbonAgent.token_tracker (app.py 221)
    health_analysis_called,  \* CarbonAgent._health_analysis_called (app.py 222)
    token_report_sent,       \* CarbonAgent._token_report_sent (app.py 223)
    pc,                      \* where the session's single thread of control is
    response,                \* the response of the last model call (app.py 302)
    loops,                   \* completed iterations of `for _ in range(max_tool_loops)`
    tool_idx,                \* position of `for tool_call in tool_calls` (app.py 327)
    dispatch,                \* locals of the last loop body: function_name, function_result
    outcome,                 \* how the last chat() ended and what it returned
    health_requested,        \* history: the loop has read a request naming HEALTH_TOOL
    turn_calls,              \* model calls made by the current chat()
    model_calls,             \* external-model calls of the session so far
    next_id,                 \* next tool-call id the provider hands out
    vectorstore,             \* rag_food_tool._vectorstore (rag_food_tool.py 23)
    rag_pc,                  \* where a caller of the matching module is
    rag_call,                \* the function called and its arguments
    rag_fails,               \* positions of `names` whose index query fails in this call
    rag_return,              \* what the call returned or raised
    index_queries,           \* texts handed to similarity_search_with_score by the call
    rag_previous,            \* what a caller kept of its previous compute_meal_footprint call
    session_pc,              \* where the construction of each CarbonAgent is
    session_builds,          \* runs of the index build by session constructions so far
    nutrition_cache,         \* the module-level _nutrition_cache, as its set of entries
    nutrition_pc,            \* "idle" | "returned": where the caller of get_food_nutrition is
    nutrition_call,          \* the call in progress
    nutrition_return,        \* what it returned, and the requests it sent to the API
    nutrition_log            \* what the calls with a name have returned so far, by key

agent_vars == <<messages, display_history, token_tracker, health_analysis_called,
                token_report_sent, pc, response, loops, tool_idx, dispatch, outcome,
                health_requested, turn_calls, model_calls, next_id>>

rag_vars == <<vectorstore, rag_pc, rag_call, rag_fails, rag_return, index_queries>>

\* the nutrition tool (src/tools/fooddata_central_tool.py)
nutrition_vars == <<nutrition_cache, nutrition_pc, nutrition_call, nutrition_return,
                    nutrition_log>>

\* the construction of the sessions of the process
startup_vars == <<session_pc, session_builds>>

\* everything outside the session object
module_vars == <<rag_vars, rag_previous, startup_vars, nutrition_vars>>

\* what the calls of the matching module leave alone
meal_frame == <<agent_vars, rag_previous, startup_vars, nutrition_vars>>

vars == <<messages, display_history, token_tracker, health_analysis_called,
          token_report_sent, pc, response, loops, tool_idx, dispatch, outcome,
          health_requested, turn_calls, model_calls, next_id, module_vars>>

----------------------------------------------------------------------------
(* Bounds of the model *)

\* external-model calls of one explored session
MaxModelCalls == 6
\* sessions (CarbonAgent instances) one process constructs
MaxSessions == 3
\* external-model calls (chat path and vision path) of one explored session of
\* the usage accounting
MaxUsageCalls == 3
\* how many tool-call requests a response carries: none, one, several
ToolCallCounts == {0, 1, 2}

----------------------------------------------------------------------------
(* Program constants and fixed texts *)

\* the loop bound off by one
max_tool_loops_plus_one == 5 + 1

max_tool_loops == 5

None == <<"None">>
EmptyText == <<>>
SYSTEM_PROMPT == <<"system_prompt">>
intro_message == <<"intro">>
fallback == <<"fallback">>
user_message == <<"user_text">>
detected_text == <<"detected_items">>
confirm_text == <<"confirm_detected_items">>

HEALTH_TOOL == "evaluate_meal_healthiness"

names_to_functions ==
    {"compute_meal_footprint", "get_food_nutrition", "evaluate_meal_healthiness"}

\* tool names a request may carry: the registered ones and one that is not
ToolNames == {"evaluate_meal_healthiness", "compute_meal_footprint", "no_such_tool"}

\* raw argument strings a request may carry, by what json.loads makes of them
RawArguments == {"not_json", "json_object_matching", "json_object_other", "json_non_object"}

\* how a callable's body ends when it runs
Behaviours == {"returns", "raises_TypeError", "raises_Exception"}

NoUsage == [present |-> FALSE, prompt_tokens |-> 0, completion_tokens |-> 0, total_tokens |-> 0]

Usage(p, c, t) == [present |-> TRUE, prompt_tokens |-> p, completion_tokens |-> c, total_tokens |-> t]

\* usage of a well-formed provider response
UsageCore == {Usage(2, 1, 3)}

\* no usage, a full usage, and a usage whose total is not reported (read as 0)
UsageAll == {NoUsage, Usage(2, 1, 3), Usage(1, 1, 0)}

NoResponse == [content |-> None, tool_calls |-> <<>>, usage |-> NoUsage]

NoDispatch ==
    [function_name |-> "", args_parsed |-> FALSE, bound |-> FALSE,
     function_result |-> "", invocations |-> 0]

NoOutcome == [kind |-> "none", content |-> EmptyText]

----------------------------------------------------------------------------
(* Messages *)

Msg(role, content, tool_calls, tool_call_id) ==
    [role |-> role, content |-> content, tool_calls |-> tool_calls,
     tool_call_id |-> tool_call_id]

SystemMsg == Msg("system", SYSTEM_PROMPT, <<>>, 0)

UserMsg(text) == Msg("user", text, <<>>, 0)

AssistantMsg(content, tool_calls) == Msg("assistant", content, tool_calls, 0)

ToolMsg(id, function_result) == Msg("tool", <<function_result>>, <<>>, id)

Display(role, content) == [role |-> role, content |-> content]

----------------------------------------------------------------------------
(* TokenTracker *)

TokenTrackerInit ==
    [prompt_tokens |-> 0, completion_tokens |-> 0, total_tokens |-> 0,
     calls |-> 0, vision_calls |-> 0, vision_total_tokens |-> 0]

\* the total as reported only, without the prompt + completion fallback
UsageTotal_reported_only(u) == u.total_tokens

UsageTotal(u) ==
    IF u.total_tokens # 0 THEN u.total_tokens
    ELSE u.prompt_tokens + u.completion_tokens

\* a vision call counted in the vision bucket only
add_from_mistral_response_split(tr, u, is_vision) ==
    IF ~u.present THEN tr
    ELSE IF is_vision
    THEN [tr EXCEPT !.vision_calls = @ + 1,
                    !.vision_total_tokens = @ + UsageTotal(u)]
    ELSE [tr EXCEPT !.prompt_tokens = @ + u.prompt_tokens,
                    !.completion_tokens = @ + u.completion_tokens,
                    !.total_tokens = @ + UsageTotal(u),
                    !.calls = @ + 1]

add_from_mistral_response(tr, u, is_vision) ==
    IF ~u.present THEN tr
    ELSE [prompt_tokens |-> tr.prompt_tokens + u.prompt_tokens,
          completion_tokens |-> tr.completion_tokens + u.completion_tokens,
          total_tokens |-> tr.total_tokens + UsageTotal(u),
          calls |-> tr.calls + 1,
          vision_calls |-> IF is_vision THEN tr.vision_calls + 1 ELSE tr.vision_calls,
          vision_total_tokens |-> IF is_vision THEN tr.vision_total_tokens + UsageTotal(u)
                                  ELSE tr.vision_total_tokens]

render_token_report(tr) == <<"token_report">>

ContentOrEmpty(c) == IF c = None THEN EmptyText ELSE c

----------------------------------------------------------------------------
\* the session before chat() is first called
AgentInit ==
    /\ messages = <<SystemMsg, AssistantMsg(intro_message, <<>>)>>
    /\ display_history = <<Display("assistant", intro_message)>>
    /\ token_tracker = TokenTrackerInit
    /\ health_analysis_called = FALSE
    /\ token_report_sent = FALSE
    /\ pc = "idle"
    /\ response = NoResponse
    /\ loops = 0
    /\ tool_idx = 0
    /\ dispatch = NoDispatch
    /\ outcome = NoOutcome
    /\ health_requested = FALSE
    /\ turn_calls = 0
    /\ model_calls = 0
    /\ next_id = 1

\* chat() starting from a fresh history
Chat_fresh_history(budget) ==
    /\ pc = "idle"
    /\ model_calls < budget
    /\ messages' = <<SystemMsg, UserMsg(user_message)>>
    /\ display_history' = Append(display_history, Display("user", user_message))
    /\ pc' = "call"
    /\ loops' = 0
    /\ turn_calls' = 0
    /\ outcome' = NoOutcome
    /\ response' = NoResponse
    /\ dispatch' = NoDispatch
    /\ tool_idx' = 0
    /\ UNCHANGED <<token_tracker, health_analysis_called, token_report_sent,
                   health_requested, model_calls, next_id>>

\* chat() entered by a second caller whatever the first is doing
Chat_reentrant(budget) ==
    /\ model_calls < budget
    /\ messages' = Append(messages, UserMsg(user_message))
    /\ display_history' = Append(display_history, Display("user", user_message))
    /\ pc' = "call"
    /\ loops' = 0
    /\ turn_calls' = 0
    /\ outcome' = NoOutcome
    /\ response' = NoResponse
    /\ dispatch' = NoDispatch
    /\ tool_idx' = 0
    /\ UNCHANGED <<token_tracker, health_analysis_called, token_report_sent,
                   health_requested, model_calls, next_id>>

\* chat(user_message), up to the first model call
Chat(budget) ==
    /\ pc = "idle"
    /\ model_calls < budget
    /\ messages' = Append(messages, UserMsg(user_message))
    /\ display_history' = Append(display_history, Display("user", user_message))
    /\ pc' = "call"
    /\ loops' = 0
    /\ turn_calls' = 0
    /\ outcome' = NoOutcome
    /\ response' = NoResponse
    /\ dispatch' = NoDispatch
    /\ tool_idx' = 0
    /\ UNCHANGED <<token_tracker, health_analysis_called, token_report_sent,
                   health_requested, model_calls, next_id>>

\* _mistral_chat: client.chat.complete returns a response, whose usage is
\* accumulated before the response goes back to the loop; the loop body's locals
\* of the iteration before are dead by now
MistralChatReturns(budget, Counts, Usages, Contents) ==
    /\ pc = "call"
    /\ model_calls < budget
    /\ \E n \in Counts, u \in Usages, c \in Contents :
          /\ response' = [content |-> c,
                          tool_calls |-> [k \in 1..n |-> next_id + k - 1],
                          usage |-> u]
          /\ next_id' = next_id + n
          /\ token_tracker' = add_from_mistral_response(token_tracker, u, FALSE)
    /\ model_calls' = model_calls + 1
    /\ turn_calls' = turn_calls + 1
    /\ pc' = "respond"
    /\ dispatch' = NoDispatch
    /\ UNCHANGED <<messages, display_history, health_analysis_called,
                   token_report_sent, loops, tool_idx, outcome, health_requested>>

\* a failed model call caught by the loop and answered with the fallback
MistralChatRaises_swallowed(budget) ==
    /\ pc = "call"
    /\ model_calls < budget
    /\ model_calls' = model_calls + 1
    /\ turn_calls' = turn_calls + 1
    /\ pc' = "idle"
    /\ display_history' = Append(display_history, Display("assistant", fallback))
    /\ outcome' = [kind |-> "fallback", content |-> fallback]
    /\ UNCHANGED <<messages, token_tracker, health_analysis_called,
                   token_report_sent, response, loops, tool_idx, dispatch,
                   health_requested, next_id>>

\* _mistral_chat: client.chat.complete raises; nothing catches it up to chat()'s caller
MistralChatRaises(budget) ==
    /\ pc = "call"
    /\ model_calls < budget
    /\ model_calls' = model_calls + 1
    /\ turn_calls' = turn_calls + 1
    /\ pc' = "idle"
    /\ outcome' = [kind |-> "model_error", content |-> EmptyText]
    /\ UNCHANGED <<messages, display_history, token_tracker, health_analysis_called,
                   token_report_sent, response, loops, tool_idx, dispatch,
                   health_requested, next_id>>

ReportDue == health_analysis_called /\ ~token_report_sent

FinalContent ==
    IF ReportDue
    THEN ContentOrEmpty(response.content) \o render_token_report(token_tracker)
    ELSE ContentOrEmpty(response.content)

\* the final answer stored in `messages` with the report appended to it
FinalAnswer_report_in_messages ==
    /\ pc = "respond"
    /\ response.tool_calls = <<>>
    /\ messages' = Append(messages, AssistantMsg(FinalContent, <<>>))
    /\ token_report_sent' = (token_report_sent \/ ReportDue)
    /\ display_history' = Append(display_history, Display("assistant", FinalContent))
    /\ outcome' = [kind |-> "answer", content |-> FinalContent]
    /\ pc' = "idle"
    /\ UNCHANGED <<token_tracker, health_analysis_called, response, loops, tool_idx,
                   dispatch, health_requested, turn_calls, model_calls, next_id>>

\* Case 1: no tool calls -> final answer
FinalAnswer ==
    /\ pc = "respond"
    /\ response.tool_calls = <<>>
    /\ messages' = Append(messages, AssistantMsg(response.content, <<>>))
    /\ token_report_sent' = (token_report_sent \/ ReportDue)
    /\ display_history' = Append(display_history, Display("assistant", FinalContent))
    /\ outcome' = [kind |-> "answer", content |-> FinalContent]
    /\ pc' = "idle"
    /\ UNCHANGED <<token_tracker, health_analysis_called, response, loops, tool_idx,
                   dispatch, health_requested, turn_calls, model_calls, next_id>>

\* Case 2: the assistant message with its tool-call requests is appended
AppendToolCallRequests ==
    /\ pc = "respond"
    /\ response.tool_calls # <<>>
    /\ messages' = Append(messages, AssistantMsg(response.content, response.tool_calls))
    /\ pc' = "tools"
    /\ tool_idx' = 1
    /\ UNCHANGED <<display_history, token_tracker, health_analysis_called,
                   token_report_sent, response, loops, dispatch, outcome,
                   health_requested, turn_calls, model_calls, next_id>>

Dispatched(result, invocations) ==
    [function_result |-> result, invocations |-> invocations, raised |-> FALSE]

Propagates(invocations) ==
    [function_result |-> "", invocations |-> invocations, raised |-> TRUE]

\* fn(**args): the call binds only a JSON object whose keys are the parameters;
\* anything else is a TypeError before the body runs
KeywordCall(raw_args, body) ==
    IF raw_args = "json_object_matching" THEN body ELSE "raises_TypeError"

\* fn(args) without its own try/except
PositionalFallback_uncaught(body) ==
    IF body = "returns" THEN Dispatched("tool_output", 2) ELSE Propagates(2)

\* fn(args), after a TypeError of fn(**args)
PositionalFallback(body) ==
    IF body = "returns" THEN Dispatched("tool_output", 2)
    ELSE Dispatched("error_exception", 2)

\* the ladder with the registry looked up before the arguments are parsed
ToolDispatch_lookup_first(function_name, raw_args, body1, body2) ==
    IF function_name \notin names_to_functions THEN Dispatched("error_unknown_tool", 0)
    ELSE IF raw_args = "not_json" THEN Dispatched("error_invalid_json", 0)
    ELSE CASE KeywordCall(raw_args, body1) = "returns" -> Dispatched("tool_output", 1)
           [] KeywordCall(raw_args, body1) = "raises_TypeError" -> PositionalFallback(body2)
           [] OTHER -> Dispatched("error_exception", 1)

\* the try/except ladder of the loop body
ToolDispatch(function_name, raw_args, body1, body2) ==
    IF raw_args = "not_json" THEN Dispatched("error_invalid_json", 0)
    ELSE IF function_name \notin names_to_functions THEN Dispatched("error_unknown_tool", 0)
    ELSE CASE KeywordCall(raw_args, body1) = "returns" -> Dispatched("tool_output", 1)
           [] KeywordCall(raw_args, body1) = "raises_TypeError" -> PositionalFallback(body2)
           [] OTHER -> Dispatched("error_exception", 1)

Reached(function_name, raw_args) ==
    raw_args # "not_json" /\ function_name \in names_to_functions

\* the ways the body of fn(**args) can end, when that call runs the body
KeywordBodies(function_name, raw_args) ==
    IF Reached(function_name, raw_args) /\ raw_args = "json_object_matching"
    THEN Behaviours ELSE {"not_run"}

\* the ways the body of fn(args) can end, when that call is made
PositionalBodies(function_name, raw_args, body1) ==
    IF Reached(function_name, raw_args)
       /\ KeywordCall(raw_args, body1) = "raises_TypeError"
    THEN Behaviours ELSE {"not_run"}

\* the flag set by any registered tool
HealthFlag_any_tool(called, function_name) ==
    called \/ function_name \in names_to_functions

\* the flag following the request served last
HealthFlag_last_request(called, function_name) == function_name = HEALTH_TOOL

HealthFlag(called, function_name) == called \/ function_name = HEALTH_TOOL

\* every tool message answering the first request
ToolCallId_first(tool_calls, i) == tool_calls[1]

ToolCallId(tool_calls, i) == tool_calls[i]

\* the iteration of the for-range loop ends with the last tool call
AfterToolCalls(done) ==
    IF done + 1 < max_tool_loops THEN "call" ELSE "exhausted"

\* one body of `for tool_call in tool_calls`
DispatchToolCall ==
    /\ pc = "tools"
    /\ \E function_name \in ToolNames, raw_args \in RawArguments :
       \E body1 \in KeywordBodies(function_name, raw_args) :
       \E body2 \in PositionalBodies(function_name, raw_args, body1) :
          LET r == ToolDispatch(function_name, raw_args, body1, body2)
              last == tool_idx = Len(response.tool_calls)
          IN  /\ health_analysis_called' = HealthFlag(health_analysis_called, function_name)
              /\ health_requested' = (health_requested \/ function_name = HEALTH_TOOL)
              /\ dispatch' = [function_name |-> function_name,
                              args_parsed |-> (raw_args # "not_json"),
                              bound |-> (Reached(function_name, raw_args)
                                         /\ raw_args = "json_object_matching"),
                              function_result |-> r.function_result,
                              invocations |-> r.invocations]
              /\ IF r.raised
                 THEN /\ pc' = "idle"
                      /\ outcome' = [kind |-> "tool_error", content |-> EmptyText]
                      /\ UNCHANGED <<messages, tool_idx, loops>>
                 ELSE /\ messages' = Append(messages,
                             ToolMsg(ToolCallId(response.tool_calls, tool_idx),
                                     "function_result"))
                      /\ tool_idx' = tool_idx + 1
                      /\ loops' = IF last THEN loops + 1 ELSE loops
                      /\ pc' = IF last THEN AfterToolCalls(loops) ELSE "tools"
                      /\ UNCHANGED outcome
    /\ UNCHANGED <<display_history, token_tracker, token_report_sent, response,
                   turn_calls, model_calls, next_id>>

\* index of the user message that opened the current turn (0 before any)
TurnStart(msgs) ==
    LET users == {i \in 1..Len(msgs) : msgs[i].role = "user"}
    IN  IF users = {} THEN 0
        ELSE CHOOSE i \in users : \A j \in users : j <= i

\* the fallback also stored in the provider-facing history
Fallback_into_messages ==
    /\ pc = "exhausted"
    /\ messages' = Append(messages, AssistantMsg(fallback, <<>>))
    /\ display_history' = Append(display_history, Display("assistant", fallback))
    /\ outcome' = [kind |-> "fallback", content |-> fallback]
    /\ pc' = "idle"
    /\ UNCHANGED <<token_tracker, health_analysis_called, token_report_sent,
                   response, loops, tool_idx, dispatch, health_requested, turn_calls,
                   model_calls, next_id>>

\* the fallback dropping the last step from the provider-facing history
Fallback_truncates ==
    /\ pc = "exhausted"
    /\ messages' = SubSeq(messages, 1, TurnStart(messages) - 1)
    /\ display_history' = Append(display_history, Display("assistant", fallback))
    /\ outcome' = [kind |-> "fallback", content |-> fallback]
    /\ pc' = "idle"
    /\ UNCHANGED <<token_tracker, health_analysis_called, token_report_sent,
                   response, loops, tool_idx, dispatch, health_requested, turn_calls,
                   model_calls, next_id>>

\* the fallback step starting a new tracker
Fallback_resets_tracker ==
    /\ pc = "exhausted"
    /\ token_tracker' = TokenTrackerInit
    /\ display_history' = Append(display_history, Display("assistant", fallback))
    /\ outcome' = [kind |-> "fallback", content |-> fallback]
    /\ pc' = "idle"
    /\ UNCHANGED <<messages, health_analysis_called, token_report_sent,
                   response, loops, tool_idx, dispatch, health_requested, turn_calls,
                   model_calls, next_id>>

\* the loop ran out without a final assistant message
Fallback ==
    /\ pc = "exhausted"
    /\ display_history' = Append(display_history, Display("assistant", fallback))
    /\ outcome' = [kind |-> "fallback", content |-> fallback]
    /\ pc' = "idle"
    /\ UNCHANGED <<messages, token_tracker, health_analysis_called, token_report_sent,
                   response, loops, tool_idx, dispatch, health_requested, turn_calls,
                   model_calls, next_id>>

\* the "Analyze picture" button, first half: analyze_image gets the items and the
\* raw response from the vision extraction and accumulates the response's usage
AnalyzeImage(budget, Usages) ==
    /\ pc = "idle"
    /\ model_calls < budget
    /\ model_calls' = model_calls + 1
    /\ \E u \in Usages, items \in {"no_items", "items"} :
          /\ response' = [content |-> <<items>>, tool_calls |-> <<>>, usage |-> u]
          /\ token_tracker' = add_from_mistral_response(token_tracker, u, TRUE)
    /\ pc' = "picture"
    /\ UNCHANGED <<messages, display_history, health_analysis_called, token_report_sent,
                   loops, tool_idx, dispatch, outcome, health_requested, turn_calls,
                   next_id>>

\* the two messages inserted whatever the vision extraction returned
InsertDetectedItems_even_without_items ==
    /\ pc = "picture"
    /\ messages' = messages \o <<UserMsg(detected_text), AssistantMsg(confirm_text, <<>>)>>
    /\ display_history' = display_history \o
           <<Display("user", detected_text), Display("assistant", confirm_text)>>
    /\ pc' = "idle"
    /\ UNCHANGED <<token_tracker, health_analysis_called, token_report_sent, response,
                   loops, tool_idx, dispatch, outcome, health_requested, turn_calls,
                   model_calls, next_id>>

\* the "Analyze picture" button, second half: the detected items, when there are
\* any, are inserted into the chat as a user and an assistant message
InsertDetectedItems ==
    /\ pc = "picture"
    /\ IF response.content = <<"no_items">>
       THEN UNCHANGED <<messages, display_history>>
       ELSE /\ messages' = messages \o <<UserMsg(detected_text),
                                           AssistantMsg(confirm_text, <<>>)>>
            /\ display_history' = display_history \o
                   <<Display("user", detected_text), Display("assistant", confirm_text)>>
    /\ pc' = "idle"
    /\ UNCHANGED <<token_tracker, health_analysis_called, token_report_sent, response,
                   loops, tool_idx, dispatch, outcome, health_requested, turn_calls,
                   model_calls, next_id>>

\* analyze_meal_image_with_usage raises: analyze_image never reaches the tracker
AnalyzeImageRaises(budget) ==
    /\ pc = "idle"
    /\ model_calls < budget
    /\ model_calls' = model_calls + 1
    /\ UNCHANGED <<messages, display_history, token_tracker, health_analysis_called,
                   token_report_sent, pc, response, loops, tool_idx, dispatch, outcome,
                   health_requested, turn_calls, next_id>>

----------------------------------------------------------------------------
(* The catalog matching module (src/tools/rag_food_tool.py): data *)

\* Python's None / JSON null in the fields of a result; a present value v is
\* the one-element sequence <<v>>
null == <<>>

Some(v) == <<v>>

\* 0.60, in hundredths
SIMILARITY_THRESHOLD == 60

\* how many items a payload, or a list handed to the lookup, may hold
ItemCounts == {0, 1, 2}

\* names an item may carry (before stripping)
RawNames == {"", " ", "beef", " beef ", "tofu", "kelp"}

\* str.strip()
strip(name) ==
    CASE name = " " -> ""
      [] name = " beef " -> "beef"
      [] OTHER -> name

\* names as the lookup receives them from a direct caller
LookupNames == {"", "beef", "tofu", "kelp"}

\* masses a direct caller may pass, in grams
LookupMasses == {-5, 0, 100}

\* the values of the "mass_g" and "mass_ml" keys of an item, when present
MassGValues == {-5, 0, 100}

MassMlValues == {200}

\* the items of a payload: objects with a name and either mass key present or not
Items ==
    [name : RawNames]
    \cup [name : RawNames, mass_g : MassGValues]
    \cup [name : RawNames, mass_ml : MassMlValues]
    \cup [name : RawNames, mass_g : MassGValues, mass_ml : MassMlValues]

\* sequences of at most two elements of S
SeqsUpTo2(S) ==
    (IF 0 \in ItemCounts THEN {<<>>} ELSE {})
    \cup (IF 1 \in ItemCounts THEN {<<a>> : a \in S} ELSE {})
    \cup (IF 2 \in ItemCounts THEN {<<a, b>> : a \in S, b \in S} ELSE {})

\* a JSON value tagged with its Python type after json.loads
JList(elems) == [type |-> "list", value |-> elems]

JStr(text) == [type |-> "str", value |-> <<text>>]

\* payloads: text that is not JSON, JSON that is not an object, an object
\* without "items", with "items" that is not a list, with a list of items
Payloads ==
    {[json |-> "invalid"], [json |-> "array"], [json |-> "object"],
     [json |-> "object", items |-> JStr("beef 100 g")]}
    \cup {[json |-> "object", items |-> JList(elems)] : elems \in SeqsUpTo2(Items)}

\* dict.get(key, default)
Get(d, key, default) == IF key \in DOMAIN d THEN d[key] ELSE default

\* _vectorstore = None: no index has been built
NoVectorstore == "None"

\* the index after a build: a catalog with metadata, an index without
\* documents, and a persisted store whose documents carry no metadata
Catalogs == {"catalog", "empty", "legacy"}

\* a document as _build_langchain_vectorstore creates it
Document(item_name, cf_value) ==
    [page_content |-> item_name,
     metadata |-> [item_name |-> item_name, cf_kg_per_kg |-> cf_value]]

\* a document of a store persisted without the metadata keys
LegacyDocument(item_name) ==
    [page_content |-> item_name, metadata |-> [index |-> 0]]

\* the catalog entry nearest to a query text and its distance, in hundredths
Nearest(query) ==
    CASE query = "beef" -> [item_name |-> "BEEF BONE FREE MEAT", cf_value |-> 27, distance |-> 20]
      [] query = "tofu" -> [item_name |-> "TOFU", cf_value |-> 3, distance |-> 80]
      [] query = "kelp" -> [item_name |-> "KALE", cf_value |-> 1, distance |-> 82]
      [] OTHER -> [item_name |-> "KALE", cf_value |-> 1, distance |-> 100]

\* _vectorstore.similarity_search_with_score(name, k=1): raises, or returns
\* the list of (doc, distance) pairs
similarity_search_with_score(vs, query, fails) ==
    IF fails
    THEN [raised |-> TRUE, search_results |-> <<>>]
    ELSE IF vs = "empty"
    THEN [raised |-> FALSE, search_results |-> <<>>]
    ELSE LET n == Nearest(query)
             doc == IF vs = "legacy" THEN LegacyDocument(n.item_name)
                    ELSE Document(n.item_name, n.cf_value)
         IN [raised |-> FALSE, search_results |-> << <<doc, n.distance>> >>]

----------------------------------------------------------------------------
(* _lookup_items_batch *)

\* what a step of the lookup hands back: whether it raised (and what), the
\* results it produced and the texts it handed to the index
Returned(results, queries) ==
    [raised |-> FALSE, exc |-> "", results |-> results, queries |-> queries]

Raised(exc, queries) ==
    [raised |-> TRUE, exc |-> exc, results |-> <<>>, queries |-> queries]

\* the result dict as the loop body creates it
NewResult(name, mass_g) ==
    [input_name |-> name, matched_item |-> null, mass_g |-> mass_g,
     source |-> "unknown", similarity_score |-> null, cf_kg_per_kg |-> null,
     emissions_kg_co2 |-> null]

\* result["notes"] = text
WithNotes(result, text) == result @@ ("notes" :> text)

\* similarity = 1 - (distance / 2), in hundredths
Similarity(distance) == 100 - (distance \div 2)

\* the threshold test that lets a 0.59 match through
BelowThreshold_off_by_one(similarity) == similarity < SIMILARITY_THRESHOLD - 1

\* if similarity < SIMILARITY_THRESHOLD
BelowThreshold(similarity) == similarity < SIMILARITY_THRESHOLD

\* the branch of a match that forgets to mark the result as a database match
DatabaseResult_no_source(result, doc, mass_g) ==
    IF ~ ({"item_name", "cf_kg_per_kg"} \subseteq DOMAIN doc.metadata)
    THEN WithNotes(result, <<"Error during lookup: ", "KeyError">>)
    ELSE [result EXCEPT !.matched_item = Some(doc.metadata.item_name),
                        !.cf_kg_per_kg = Some(doc.metadata.cf_kg_per_kg),
                        !.emissions_kg_co2 = Some(doc.metadata.cf_kg_per_kg * mass_g)]

\* the tail of the try block: read the metadata (KeyError when a key is
\* missing, caught by `except Exception`), compute the emissions, fill the result
DatabaseResult(result, doc, mass_g) ==
    IF ~ ({"item_name", "cf_kg_per_kg"} \subseteq DOMAIN doc.metadata)
    THEN WithNotes(result, <<"Error during lookup: ", "KeyError">>)
    ELSE [result EXCEPT !.matched_item = Some(doc.metadata.item_name),
                        !.cf_kg_per_kg = Some(doc.metadata.cf_kg_per_kg),
                        !.emissions_kg_co2 = Some(doc.metadata.cf_kg_per_kg * mass_g),
                        !.source = "database"]

\* a handler that lets the failure of the index query through
QueryFailed_propagates(result, name) == Raised("QueryError", <<name>>)

\* `except Exception as exc` around a failed index query
QueryFailed(result, name) ==
    Returned(<<WithNotes(result, <<"Error during lookup: ", "QueryError">>)>>, <<name>>)

\* one iteration of `for name, mass_g in zip(names, masses_g)`
lookup_item(vs, name, mass_g, fails) ==
    LET result == NewResult(name, mass_g)
    IN IF name = "" \/ mass_g <= 0
       THEN Returned(<<WithNotes(result, <<"Empty name or non-positive mass.">>)>>, <<>>)
       ELSE LET search == similarity_search_with_score(vs, name, fails)
            IN IF search.raised
               THEN QueryFailed(result, name)
               ELSE IF search.search_results = <<>>
               THEN Returned(<<WithNotes(result, <<"No matches found in database.">>)>>,
                             <<name>>)
               ELSE LET doc == search.search_results[1][1]
                        distance == search.search_results[1][2]
                        similarity == Similarity(distance)
                        scored == [result EXCEPT !.similarity_score = Some(similarity)]
                    IN IF BelowThreshold(similarity)
                       THEN Returned(<<WithNotes(scored,
                                          <<"Best match is not similar enough.">>)>>,
                                     <<name>>)
                       ELSE Returned(<<DatabaseResult(scored, doc, mass_g)>>, <<name>>)

\* len(zip(names, masses_g))
ZipLen(names, masses_g) ==
    IF Len(names) <= Len(masses_g) THEN Len(names) ELSE Len(masses_g)

\* a loop that stops at the first item that is not a database match
RECURSIVE lookup_loop_break(_, _, _, _, _)
lookup_loop_break(vs, names, masses_g, fails, i) ==
    IF i > ZipLen(names, masses_g)
    THEN Returned(<<>>, <<>>)
    ELSE LET one == lookup_item(vs, names[i], masses_g[i], i \in fails)
         IN IF one.raised
            THEN one
            ELSE IF one.results[1].source = "unknown"
            THEN one
            ELSE LET rest == lookup_loop_break(vs, names, masses_g, fails, i + 1)
                 IN IF rest.raised
                    THEN Raised(rest.exc, one.queries \o rest.queries)
                    ELSE Returned(one.results \o rest.results,
                                  one.queries \o rest.queries)

\* the for loop from position i on: every item appends one result
RECURSIVE lookup_loop(_, _, _, _, _)
lookup_loop(vs, names, masses_g, fails, i) ==
    IF i > ZipLen(names, masses_g)
    THEN Returned(<<>>, <<>>)
    ELSE LET one == lookup_item(vs, names[i], masses_g[i], i \in fails)
         IN IF one.raised
            THEN one
            ELSE LET rest == lookup_loop(vs, names, masses_g, fails, i + 1)
                 IN IF rest.raised
                    THEN Raised(rest.exc, one.queries \o rest.queries)
                    ELSE Returned(one.results \o rest.results,
                                  one.queries \o rest.queries)

\* the lookup that answers an unready index with an empty list
lookup_items_batch_unready_empty(vs, names, masses_g, fails) ==
    IF vs = NoVectorstore \/ names = <<>>
    THEN Returned(<<>>, <<>>)
    ELSE lookup_loop(vs, names, masses_g, fails, 1)

\* _lookup_items_batch(names, masses_g) against the index vs
lookup_items_batch(vs, names, masses_g, fails) ==
    IF vs = NoVectorstore
    THEN Raised("RuntimeError", <<>>)
    ELSE IF names = <<>>
    THEN Returned(<<>>, <<>>)
    ELSE lookup_loop(vs, names, masses_g, fails, 1)

----------------------------------------------------------------------------
(* compute_meal_footprint *)

\* what compute_meal_footprint hands back: whether it raised (and what), the
\* JSON value of the text it returned and the texts it handed to the index
Result(value, queries) ==
    [raised |-> FALSE, exc |-> "", value |-> value, queries |-> queries]

Failure(exc, queries) ==
    [raised |-> TRUE, exc |-> exc, value |-> null, queries |-> queries]

\* the fallback that takes mass_ml only for an absent or zero mass_g
EffectiveMass_zero_only(item) ==
    LET mass_g == Get(item, "mass_g", 0)
        mass_ml == Get(item, "mass_ml", 0)
    IN IF mass_g = 0 /\ mass_ml > 0 THEN mass_ml ELSE mass_g

\* mass_g after `if mass_g <= 0 and mass_ml > 0: mass_g = mass_ml`
EffectiveMass(item) ==
    LET mass_g == Get(item, "mass_g", 0)
        mass_ml == Get(item, "mass_ml", 0)
    IN IF mass_g <= 0 /\ mass_ml > 0 THEN mass_ml ELSE mass_g

\* the guard that forgets the mass
Dropped_name_only(name, mass_g) == name = ""

\* if not name or mass_g <= 0: continue
Dropped(name, mass_g) == name = "" \/ mass_g <= 0

\* for item in items: the names and masses that are kept, from position i on
RECURSIVE CollectItems(_, _)
CollectItems(items, i) ==
    IF i > Len(items)
    THEN [names |-> <<>>, masses_g |-> <<>>]
    ELSE LET name == strip(Get(items[i], "name", ""))
             mass_g == EffectiveMass(items[i])
             rest == CollectItems(items, i + 1)
         IN IF Dropped(name, mass_g)
            THEN rest
            ELSE [names |-> <<name>> \o rest.names,
                  masses_g |-> <<mass_g>> \o rest.masses_g]

\* a total that keeps only the last item's emissions
Accumulate_overwrites(total, emissions) == emissions

\* total_emissions_db_only += float(res["emissions_kg_co2"])
Accumulate(total, emissions) == total + emissions

\* a flag that only remembers the last item
Flag_last_item(any_unknown, trusted) == ~trusted

\* any_unknown after one result: set in the else branch, kept otherwise
Flag(any_unknown, trusted) == any_unknown \/ ~trusted

\* for res in batch_results, from position i on
RECURSIVE Aggregate(_, _, _, _)
Aggregate(batch_results, i, total, any_unknown) ==
    IF i > Len(batch_results)
    THEN [total |-> total, any_unknown |-> any_unknown]
    ELSE LET res == batch_results[i]
             trusted == res.source = "database" /\ res.emissions_kg_co2 # null
         IN Aggregate(batch_results, i + 1,
                      IF trusted THEN Accumulate(total, res.emissions_kg_co2[1]) ELSE total,
                      Flag(any_unknown, trusted))

\* the output dict
MealReport(meal_label, batch_results, total, any_unknown) ==
    [meal_label |-> meal_label,
     items |-> batch_results,
     total_emissions_kg_co2_database_only |-> total,
     notes |-> IF any_unknown
               THEN <<"Some items could not be confidently matched.">>
               ELSE EmptyText]

\* the error dict of a payload that json.loads rejects
InvalidJsonResult(payload) ==
    [error |-> <<"Invalid JSON payload">>, raw_payload |-> payload]

\* an empty report for an `items` field that is not a list
NotAListResult_empty_report(data) == MealReport("meal", <<>>, 0, FALSE)

\* the error dict of an `items` field that is not a list
NotAListResult(data) ==
    [error |-> <<"Expected 'items' to be a list.">>, raw_payload |-> data]

\* compute_meal_footprint(payload) against the index vs
compute_meal_footprint(vs, payload, fails) ==
    IF payload.json = "invalid"
    THEN Result(InvalidJsonResult(payload), <<>>)
    ELSE IF payload.json # "object"
    THEN Failure("AttributeError", <<>>)
    ELSE LET meal_label == Get(payload, "meal_label", "meal")
             items == Get(payload, "items", JList(<<>>))
         IN IF items.type # "list"
            THEN Result(NotAListResult(payload), <<>>)
            ELSE LET kept == CollectItems(items.value, 1)
                     batch == lookup_items_batch(vs, kept.names, kept.masses_g, fails)
                 IN IF batch.raised
                    THEN Failure(batch.exc, batch.queries)
                    ELSE LET sums == Aggregate(batch.results, 1, 0, FALSE)
                         IN Result(MealReport(meal_label, batch.results,
                                              sums.total, sums.any_unknown),
                                   batch.queries)

----------------------------------------------------------------------------
(* The callers of the matching module *)

NoCall == [fn |-> "none"]

NoReturn == [raised |-> FALSE, exc |-> "", value |-> null]

\* the caller holds no earlier return value
NoPrevious == [fn |-> "none"]

Sessions == 1..MaxSessions

\* the module as imported: no index yet, no session constructed
RagImported ==
    /\ session_pc = [s \in Sessions |-> "none"]
    /\ session_builds = 0
    /\ vectorstore = NoVectorstore
    /\ rag_pc = "idle"
    /\ rag_call = NoCall
    /\ rag_fails = {}
    /\ rag_return = NoReturn
    /\ index_queries = <<>>
    /\ rag_previous = NoPrevious

\* the module after the warm-up of a session's construction
RagWarm ==
    /\ session_pc = [s \in Sessions |-> IF s = 1 THEN "constructed" ELSE "none"]
    /\ session_builds = 1
    /\ vectorstore = "catalog"
    /\ rag_pc = "idle"
    /\ rag_call = NoCall
    /\ rag_fails = {}
    /\ rag_return = NoReturn
    /\ index_queries = <<>>
    /\ rag_previous = NoPrevious

\* warm_up_rag() when the build succeeds
WarmUpRag ==
    /\ rag_pc = "idle"
    /\ \E built \in Catalogs : vectorstore' = built
    /\ rag_call' = [fn |-> "warm_up_rag"]
    /\ rag_return' = NoReturn
    /\ rag_pc' = "returned"
    /\ UNCHANGED <<rag_fails, index_queries>>

\* warm_up_rag() when the build raises: the exception is printed and re-raised
WarmUpRagRaises ==
    /\ rag_pc = "idle"
    /\ rag_call' = [fn |-> "warm_up_rag"]
    /\ rag_return' = [raised |-> TRUE, exc |-> "BuildError", value |-> null]
    /\ rag_pc' = "returned"
    /\ UNCHANGED <<vectorstore, rag_fails, index_queries>>

\* the positions of the kept names of a payload, whose queries may fail
QueryPositions(payload) ==
    LET items == Get(payload, "items", JList(<<>>))
    IN IF payload.json = "object" /\ items.type = "list"
       THEN 1..Len(CollectItems(items.value, 1).names)
       ELSE {}

\* a call that builds the index anew before it looks the items up
ComputeMealFootprintCall_rebuilds(payloads, failsets) ==
    /\ rag_pc = "idle"
    /\ \E payload \in payloads, built \in Catalogs :
          \E fails \in failsets \cap SUBSET QueryPositions(payload) :
             LET r == compute_meal_footprint(built, payload, fails)
             IN /\ rag_call' = [fn |-> "compute_meal_footprint", payload |-> payload]
                /\ rag_fails' = fails
                /\ rag_return' = [raised |-> r.raised, exc |-> r.exc, value |-> r.value]
                /\ index_queries' = r.queries
                /\ vectorstore' = built
    /\ rag_pc' = "returned"

\* a call of compute_meal_footprint(payload), to its return or its exception,
\* for a payload of `payloads` and failing queries of `failsets`
ComputeMealFootprintCall(payloads, failsets) ==
    /\ rag_pc = "idle"
    /\ \E payload \in payloads :
          \E fails \in failsets \cap SUBSET QueryPositions(payload) :
             LET r == compute_meal_footprint(vectorstore, payload, fails)
             IN /\ rag_call' = [fn |-> "compute_meal_footprint", payload |-> payload]
                /\ rag_fails' = fails
                /\ rag_return' = [raised |-> r.raised, exc |-> r.exc, value |-> r.value]
                /\ index_queries' = r.queries
    /\ rag_pc' = "returned"
    /\ UNCHANGED vectorstore

\* any call of compute_meal_footprint
CallComputeMealFootprint == ComputeMealFootprintCall(Payloads, SUBSET {1, 2})

\* a direct call of _lookup_items_batch(names, masses_g)
CallLookupItemsBatch ==
    /\ rag_pc = "idle"
    /\ \E names \in SeqsUpTo2(LookupNames) :
          \E masses_g \in {m \in SeqsUpTo2(LookupMasses) : Len(m) = Len(names)} :
             \E fails \in SUBSET (1..Len(names)) :
                LET r == lookup_items_batch(vectorstore, names, masses_g, fails)
                IN /\ rag_call' = [fn |-> "_lookup_items_batch", names |-> names,
                                   masses_g |-> masses_g]
                   /\ rag_fails' = fails
                   /\ rag_return' = [raised |-> r.raised, exc |-> r.exc, value |-> r.results]
                   /\ index_queries' = r.queries
    /\ rag_pc' = "returned"
    /\ UNCHANGED vectorstore

\* the caller takes the return value, or handles the exception
RagReturn ==
    /\ rag_pc = "returned"
    /\ rag_pc' = "idle"
    /\ rag_call' = NoCall
    /\ rag_fails' = {}
    /\ rag_return' = NoReturn
    /\ index_queries' = <<>>
    /\ UNCHANGED vectorstore

----------------------------------------------------------------------------
(* The nutrition tool (src/tools/fooddata_central_tool.py): get_food_nutrition *)
(* and its module-level cache                                                  *)

\* names the tool is called with
NutritionNames == {"", " ", "beef", " beef ", "Beef", "tofu"}

\* str.lower()
lower(name) == IF name = "Beef" THEN "beef" ELSE name

\* how _search_food_in_fdc can end: no API key in the environment, HTTP 403,
\* another HTTP error, a network error, no food, a food without fdcId, a food
SearchOutcomes ==
    {"no_api_key", "http_403", "http_error", "network_error", "no_foods", "no_fdc_id",
     "found"}

\* how _get_food_details can end
DetailsOutcomes == {"http_error", "network_error", "ok"}

\* the dict that is dumped to JSON; notes stands for the text of the notes
NutritionResult(food_name_query, found, notes) ==
    [food_name_query |-> food_name_query, found |-> found, notes |-> notes]

\* what one run of the lookup part gives, and the requests it sent
Fetched(value, requests) == [value |-> value, requests |-> requests]

\* the body after the cache test: the search, then the details
Fetch(query, search, details) ==
    CASE search = "no_api_key" ->
            Fetched(NutritionResult(query, FALSE, "network_or_api_error"), 0)
      [] search = "http_403" -> Fetched(NutritionResult(query, FALSE, "forbidden"), 1)
      [] search = "http_error" -> Fetched(NutritionResult(query, FALSE, "http_error"), 1)
      [] search = "network_error" ->
            Fetched(NutritionResult(query, FALSE, "network_or_api_error"), 1)
      [] search = "no_foods" -> Fetched(NutritionResult(query, FALSE, "no_food"), 1)
      [] search = "no_fdc_id" -> Fetched(NutritionResult(query, FALSE, "no_fdc_id"), 1)
      [] OTHER ->
            CASE details = "http_error" ->
                    Fetched(NutritionResult(query, FALSE, "details_http_error"), 2)
              [] details = "network_error" ->
                    Fetched(NutritionResult(query, FALSE, "details_network_error"), 2)
              [] OTHER -> Fetched(NutritionResult(query, TRUE, "nutrients_per_100g"), 2)

\* cache_key in _nutrition_cache
InCache(cache, cache_key) == \E e \in cache : e.key = cache_key

\* _nutrition_cache[cache_key]
CacheGet(cache, cache_key) == (CHOOSE e \in cache : e.key = cache_key).value

\* _nutrition_cache[cache_key] = value
CachePut(cache, cache_key, value) ==
    {e \in cache : e.key # cache_key} \cup {[key |-> cache_key, value |-> value]}

\* what a call gives: the value returned, the cache after it, the requests sent
NutritionOutcome(value, cache, requests) ==
    [value |-> value, cache |-> cache, requests |-> requests]

\* the tool caching successful lookups only
get_food_nutrition_caches_success_only(cache, food_name, search, details) ==
    LET query == strip(food_name)
        cache_key == lower(query)
        fetched == Fetch(query, search, details)
    IN  IF query = ""
        THEN NutritionOutcome(NutritionResult(food_name, FALSE, "no_name"), cache, 0)
        ELSE IF InCache(cache, cache_key)
        THEN NutritionOutcome(CacheGet(cache, cache_key), cache, 0)
        ELSE NutritionOutcome(fetched.value,
                              IF fetched.value.found
                              THEN CachePut(cache, cache_key, fetched.value) ELSE cache,
                              fetched.requests)

\* get_food_nutrition(food_name)
get_food_nutrition(cache, food_name, search, details) ==
    LET query == strip(food_name)
        cache_key == lower(query)
        fetched == Fetch(query, search, details)
    IN  IF query = ""
        THEN NutritionOutcome(NutritionResult(food_name, FALSE, "no_name"), cache, 0)
        ELSE IF InCache(cache, cache_key)
        THEN NutritionOutcome(CacheGet(cache, cache_key), cache, 0)
        ELSE NutritionOutcome(fetched.value, CachePut(cache, cache_key, fetched.value),
                              fetched.requests)

NoNutritionCall == [food_name |-> "none"]

NoNutritionReturn == [value |-> NutritionResult("", FALSE, "none"), requests |-> 0]

\* the module as imported: an empty cache
NutritionImported ==
    /\ nutrition_cache = {}
    /\ nutrition_pc = "idle"
    /\ nutrition_call = NoNutritionCall
    /\ nutrition_return = NoNutritionReturn
    /\ nutrition_log = {}

\* one call of the tool, the API answering as it happens to
CallGetFoodNutrition ==
    /\ nutrition_pc = "idle"
    /\ \E food_name \in NutritionNames, search \in SearchOutcomes,
          details \in DetailsOutcomes :
          LET r == get_food_nutrition(nutrition_cache, food_name, search, details)
          IN /\ nutrition_call' = [food_name |-> food_name]
             /\ nutrition_return' = [value |-> r.value, requests |-> r.requests]
             /\ nutrition_cache' = r.cache
    /\ nutrition_pc' = "returned"
    /\ UNCHANGED nutrition_log

\* the caller takes the returned text; what a call with a name returned is
\* remembered by the key of the name
NutritionReturn ==
    /\ nutrition_pc = "returned"
    /\ nutrition_log' =
          IF lower(strip(nutrition_call.food_name)) = "" THEN nutrition_log
          ELSE nutrition_log \cup {[key |-> lower(strip(nutrition_call.food_name)),
                                    value |-> nutrition_return.value]}
    /\ nutrition_pc' = "idle"
    /\ nutrition_call' = NoNutritionCall
    /\ nutrition_return' = NoNutritionReturn
    /\ UNCHANGED nutrition_cache

----------------------------------------------------------------------------
\* a session after construction: __post_init__ has warmed the index up
Init == AgentInit /\ RagWarm /\ NutritionImported

----------------------------------------------------------------------------
(* The orchestrator: chat() and the step loop *)

StartChat == Chat(MaxModelCalls)

ChatReturns == MistralChatReturns(MaxModelCalls, ToolCallCounts, UsageCore, {<<"text">>})

ChatRaises == MistralChatRaises(MaxModelCalls)

Next ==
    \/ StartChat /\ UNCHANGED module_vars
    \/ ChatReturns /\ UNCHANGED module_vars
    \/ ChatRaises /\ UNCHANGED module_vars
    \/ FinalAnswer /\ UNCHANGED module_vars
    \/ AppendToolCallRequests /\ UNCHANGED module_vars
    \/ DispatchToolCall /\ UNCHANGED module_vars
    \/ Fallback /\ UNCHANGED module_vars

Spec == Init /\ [][Next]_vars

----------------------------------------------------------------------------
(* The usage accounting: the chat path and the vision path, every shape of  *)
(* usage; the call budget is too short for the loop to run out              *)

UsageStartChat == Chat(MaxUsageCalls)

UsageChatReturns == MistralChatReturns(MaxUsageCalls, {0, 1}, UsageAll, {<<"text">>})

UsageChatRaises == MistralChatRaises(MaxUsageCalls)

UsageAnalyzeImage == AnalyzeImage(MaxUsageCalls, UsageAll)

UsageAnalyzeImageRaises == AnalyzeImageRaises(MaxUsageCalls)

NextUsage ==
    \/ UsageStartChat /\ UNCHANGED module_vars
    \/ UsageChatReturns /\ UNCHANGED module_vars
    \/ UsageChatRaises /\ UNCHANGED module_vars
    \/ FinalAnswer /\ UNCHANGED module_vars
    \/ AppendToolCallRequests /\ UNCHANGED module_vars
    \/ DispatchToolCall /\ UNCHANGED module_vars
    \/ UsageAnalyzeImage /\ UNCHANGED module_vars
    \/ InsertDetectedItems /\ UNCHANGED module_vars
    \/ UsageAnalyzeImageRaises /\ UNCHANGED module_vars

SpecUsage == Init /\ [][NextUsage]_vars

----------------------------------------------------------------------------
(* The matching module on its own, from its import on: warm-ups, calls of   *)
(* compute_meal_footprint and direct calls of _lookup_items_batch; the      *)
(* session's own variables do not move                                      *)

InitMeal == AgentInit /\ RagImported /\ NutritionImported

NextMeal ==
    \/ WarmUpRag /\ UNCHANGED meal_frame
    \/ WarmUpRagRaises /\ UNCHANGED meal_frame
    \/ CallComputeMealFootprint /\ UNCHANGED meal_frame
    \/ CallLookupItemsBatch /\ UNCHANGED meal_frame
    \/ RagReturn /\ UNCHANGED meal_frame

SpecMeal == InitMeal /\ [][NextMeal]_vars

----------------------------------------------------------------------------
(* A caller that calls compute_meal_footprint, keeps what it got, and calls  *)
(* it again with the same payload while the same queries fail; no warm-up  *)
(* runs between the two calls                                               *)

\* the caller keeps the value of its call and what the call was given
KeepReturn ==
    /\ rag_pc = "returned"
    /\ rag_call.fn = "compute_meal_footprint"
    /\ rag_previous = NoPrevious
    /\ rag_previous' = [fn |-> rag_call.fn, payload |-> rag_call.payload,
                        fails |-> rag_fails, return |-> rag_return,
                        queries |-> index_queries, vectorstore |-> vectorstore]
    /\ rag_pc' = "idle"
    /\ rag_call' = NoCall
    /\ rag_fails' = {}
    /\ rag_return' = NoReturn
    /\ index_queries' = <<>>
    /\ UNCHANGED vectorstore

FirstCall == rag_previous = NoPrevious /\ CallComputeMealFootprint

SecondCall ==
    /\ rag_previous # NoPrevious
    /\ ComputeMealFootprintCall({rag_previous.payload}, {rag_previous.fails})

NextRepeat ==
    \/ rag_previous = NoPrevious /\ WarmUpRag /\ UNCHANGED meal_frame
    \/ FirstCall /\ UNCHANGED meal_frame
    \/ KeepReturn /\ UNCHANGED <<agent_vars, startup_vars, nutrition_vars>>
    \/ SecondCall /\ UNCHANGED meal_frame
    \/ RagReturn /\ rag_previous' = NoPrevious /\ UNCHANGED <<agent_vars, startup_vars, nutrition_vars>>

SpecRepeat == InitMeal /\ [][NextRepeat]_vars

----------------------------------------------------------------------------
(* The sessions of one process under construction: each CarbonAgent() runs  *)
(* __post_init__, which calls warm_up_rag(); the sessions run in threads of *)
(* their own, so the steps of different constructions interleave            *)

\* CarbonAgent() up to the call of _build_langchain_vectorstore in warm_up_rag
BeginConstruction(s) ==
    /\ session_pc[s] = "none"
    /\ session_pc' = [session_pc EXCEPT ![s] = "building"]
    /\ UNCHANGED <<session_builds, rag_vars>>

\* the build returns: warm_up_rag assigns _vectorstore and __post_init__ ends
BuildReturns(s) ==
    /\ session_pc[s] = "building"
    /\ \E built \in Catalogs : vectorstore' = built
    /\ session_builds' = session_builds + 1
    /\ session_pc' = [session_pc EXCEPT ![s] = "constructed"]
    /\ UNCHANGED <<rag_pc, rag_call, rag_fails, rag_return, index_queries>>

\* the build raises: warm_up_rag re-raises and the construction fails
BuildRaises(s) ==
    /\ session_pc[s] = "building"
    /\ session_builds' = session_builds + 1
    /\ session_pc' = [session_pc EXCEPT ![s] = "failed"]
    /\ UNCHANGED rag_vars

NextStartup ==
    \/ \E s \in Sessions : BeginConstruction(s) /\ UNCHANGED <<agent_vars, rag_previous, nutrition_vars>>
    \/ \E s \in Sessions : BuildReturns(s) /\ UNCHANGED <<agent_vars, rag_previous, nutrition_vars>>
    \/ \E s \in Sessions : BuildRaises(s) /\ UNCHANGED <<agent_vars, rag_previous, nutrition_vars>>

SpecStartup == InitMeal /\ [][NextStartup]_vars

----------------------------------------------------------------------------
(* The nutrition tool on its own, from its import on: calls with every name *)
(* and every answer of the API                                              *)

nutrition_frame == <<agent_vars, rag_vars, rag_previous, startup_vars>>

NextNutrition ==
    \/ CallGetFoodNutrition /\ UNCHANGED nutrition_frame
    \/ NutritionReturn /\ UNCHANGED nutrition_frame

SpecNutrition == InitMeal /\ [][NextNutrition]_vars

----------------------------------------------------------------------------
(* Properties *)

HasToolCalls(m) == m.role = "assistant" /\ m.tool_calls # <<>>

\* every assistant message with N requests is followed at once by N tool
\* messages with the requests' ids in order, and no tool message stands elsewhere
Aligned(msgs) ==
    /\ \A i \in 1..Len(msgs) :
          HasToolCalls(msgs[i]) =>
             /\ i + Len(msgs[i].tool_calls) <= Len(msgs)
             /\ \A k \in 1..Len(msgs[i].tool_calls) :
                   /\ msgs[i + k].role = "tool"
                   /\ msgs[i + k].tool_call_id = msgs[i].tool_calls[k]
    /\ \A i \in 1..Len(msgs) :
          msgs[i].role = "tool" =>
             \E j \in 1..(i - 1) :
                HasToolCalls(msgs[j]) /\ i - j <= Len(msgs[j].tool_calls)

\* inside the loop over the requests: the history before the assistant message is
\* aligned and the requests served so far have their tool messages, in order
AlignedSoFar ==
    LET a == Len(messages) - (tool_idx - 1)
    IN  /\ a >= 1
        /\ Aligned(SubSeq(messages, 1, a - 1))
        /\ HasToolCalls(messages[a])
        /\ messages[a].tool_calls = response.tool_calls
        /\ \A k \in 1..(tool_idx - 1) :
              /\ messages[a + k].role = "tool"
              /\ messages[a + k].tool_call_id = response.tool_calls[k]

IsPrefix(s, t) == Len(s) <= Len(t) /\ SubSeq(t, 1, Len(s)) = s

\* tool-call-bearing responses of the current turn, read off the history
TurnToolResponses ==
    Cardinality({i \in (TurnStart(messages) + 1)..Len(messages) : HasToolCalls(messages[i])})

HasPart(content, part) == \E k \in 1..Len(content) : content[k] = part

ReportCount(history) ==
    Cardinality({i \in 1..Len(history) : HasPart(history[i].content, "token_report")})

FellBackLastTurn ==
    /\ Len(display_history) >= 2
    /\ display_history[Len(display_history)].role = "user"
    /\ display_history[Len(display_history) - 1] = Display("assistant", fallback)

ChatCallReturns == pc = "call" /\ pc' = "respond"

VisionCallReturns == pc = "idle" /\ pc' = "picture"

StructuredResults ==
    {"error_invalid_json", "error_unknown_tool", "tool_output", "error_exception"}

\* C1: whenever the loop is not in the middle of serving the requests of one
\* response (at every model call, after every loop iteration, once chat() has
\* returned or raised), every assistant message of `messages` that carries N
\* tool-call requests is followed at once by exactly N tool messages whose
\* tool_call_ids are the request ids in order; in the middle, the requests served
\* so far are answered in order.
C1_ToolCallAlignment ==
    /\ pc # "tools" => Aligned(messages)
    /\ pc = "tools" => AlignedSoFar

\* C1 witness: a loop iteration that served a response with two requests is over
\* and the next model call is due
C1_Witness ==
    /\ pc = "call"
    /\ loops >= 1
    /\ \E i \in 1..Len(messages) : Len(messages[i].tool_calls) = 2

\* C2: every step that serves a tool-call request, whatever the tool name, the
\* raw arguments and the callable's behaviour, produces a structured string
\* result, appends it as the tool message of that request and goes on with the
\* loop; chat() never ends with a tool-level failure.
C2_DispatchNeverRaises ==
    /\ [](outcome.kind # "tool_error")
    /\ [][pc = "tools" =>
            /\ pc' \in {"tools", "call", "exhausted"}
            /\ outcome' = outcome
            /\ dispatch'.function_result \in StructuredResults
            /\ messages' = Append(messages,
                                  ToolMsg(response.tool_calls[tool_idx], "function_result"))]_vars

\* C2 witness: a registered callable raised on the keyword call and on the
\* positional call, and the request still has its tool message
C2_Witness ==
    /\ dispatch.function_result = "error_exception"
    /\ dispatch.invocations = 2
    /\ messages[Len(messages)].role = "tool"

\* C3: a chat() call makes at least 1 and at most 5 model calls; a response
\* without tool-call requests is answered at once, with no further model call,
\* and the returned text is the model's content (followed by the one-time report
\* when it is due); the fallback is returned exactly when 5 responses in a row
\* carried tool-call requests.
C3_BoundedStepLoop ==
    /\ [](/\ turn_calls <= 5
          /\ (pc = "idle" /\ outcome.kind # "none") => turn_calls >= 1
          /\ outcome.kind = "answer" =>
                /\ response.tool_calls = <<>>
                /\ turn_calls = TurnToolResponses + 1
                /\ outcome.content \in
                      {ContentOrEmpty(response.content),
                       ContentOrEmpty(response.content) \o <<"token_report">>}
          /\ outcome.kind = "fallback" =>
                /\ outcome.content = <<"fallback">>
                /\ turn_calls = 5
                /\ TurnToolResponses = 5
          /\ (pc = "idle" /\ outcome.kind # "none" /\ TurnToolResponses = 5) =>
                outcome.kind = "fallback")
    /\ [][(pc = "respond" /\ response.tool_calls = <<>>) =>
             /\ pc' = "idle"
             /\ outcome'.kind = "answer"
             /\ model_calls' = model_calls]_vars

\* C3 witness: a chat() that returned the fallback after its fifth model call
C3_Witness ==
    /\ pc = "idle"
    /\ outcome.kind = "fallback"
    /\ turn_calls = 5

\* C4: the fallback step appends the fallback to display_history only and
\* returns it, leaving `messages` as it was; no entry of `messages` holds the
\* fallback; and once the next chat() has appended its user message the history
\* is aligned, the user message following the last tool result.
C4_ExhaustionLeavesHistoryUsable ==
    /\ [](\A i \in 1..Len(messages) : messages[i].content # <<"fallback">>)
    /\ []((pc = "call" /\ turn_calls = 0 /\ FellBackLastTurn) =>
             /\ Aligned(messages)
             /\ messages[Len(messages)].role = "user"
             /\ messages[Len(messages) - 1].role = "tool")
    /\ [][pc = "exhausted" =>
             /\ messages' = messages
             /\ display_history' =
                   Append(display_history, Display("assistant", <<"fallback">>))
             /\ outcome' = [kind |-> "fallback", content |-> <<"fallback">>]]_vars

\* C4 witness: the chat() after a fallback has appended its user message
C4_Witness ==
    /\ pc = "call"
    /\ turn_calls = 0
    /\ FellBackLastTurn

\* C5: every step leaves the old value of `messages` a prefix of the new one
\* (so every earlier value is a prefix of every later one).
C5_HistoryAppendOnly == [][IsPrefix(messages, messages')]_vars

\* C5 witness: a session with a fallback behind it in which a later chat() got
\* its final answer
C5_Witness ==
    /\ pc = "idle"
    /\ outcome.kind = "answer"
    /\ \E i \in 1..Len(display_history) : display_history[i].content = <<"fallback">>

\* C6 as stated: the fallback step removes entries from the history.
C6_Original == [][pc = "exhausted" => Len(messages') < Len(messages)]_vars

\* C6 amended: on loop exhaustion nothing is truncated: when chat() returns the
\* fallback the whole last step is still in the history (the turn's user message
\* and its 5 tool-call-bearing assistant messages with their tool results), and
\* no operation ever removes an entry from the history.
C6_NoTruncation ==
    /\ [](outcome.kind = "fallback" =>
             /\ TurnToolResponses = 5
             /\ Len(messages) - TurnStart(messages) >= 2 * 5
             /\ messages[Len(messages)].role = "tool")
    /\ [][Len(messages') >= Len(messages)]_vars

\* C6 witness: chat() has returned the fallback and the session waits for the user
C6_Witness ==
    /\ outcome.kind = "fallback"
    /\ messages[Len(messages)].role = "tool"
    /\ display_history[Len(display_history)].content = <<"fallback">>

C9_TrackerOnlyGrowsAtModelCalls ==
    [][/\ token_tracker'.calls >= token_tracker.calls
       /\ token_tracker'.prompt_tokens >= token_tracker.prompt_tokens
       /\ token_tracker'.completion_tokens >= token_tracker.completion_tokens
       /\ token_tracker'.total_tokens >= token_tracker.total_tokens
       /\ token_tracker'.vision_calls >= token_tracker.vision_calls
       /\ token_tracker'.vision_total_tokens >= token_tracker.vision_total_tokens
       /\ token_tracker' # token_tracker =>
             (model_calls' = model_calls + 1 /\ pc' \in {"respond", "picture"})]_vars

\* C9 witness: a turn with tool calls, five model calls and the fallback step is
\* over and the tracker holds the five calls
C9_Witness ==
    /\ outcome.kind = "fallback"
    /\ token_tracker.calls = 5
    /\ token_tracker.total_tokens = 15

C10_Original ==
    [][/\ VisionCallReturns =>
             /\ token_tracker'.prompt_tokens = token_tracker.prompt_tokens
             /\ token_tracker'.completion_tokens = token_tracker.completion_tokens
             /\ token_tracker'.total_tokens = token_tracker.total_tokens
             /\ token_tracker'.calls = token_tracker.calls
       /\ ChatCallReturns =>
             /\ token_tracker'.vision_calls = token_tracker.vision_calls
             /\ token_tracker'.vision_total_tokens = token_tracker.vision_total_tokens]_vars

\* C10 amended: the general counters cover every call and the vision counters
\* are a sub-total of them: a vision-path call with usage adds its tokens to the
\* vision counters and to the general counters alike, a chat-path call adds its
\* tokens to the general counters and never changes the vision counters.
C10_VisionIsSubTotal ==
    /\ [](/\ token_tracker.vision_calls <= token_tracker.calls
          /\ token_tracker.vision_total_tokens <= token_tracker.total_tokens)
    /\ [][/\ (VisionCallReturns /\ response'.usage.present) =>
                /\ token_tracker'.vision_calls = token_tracker.vision_calls + 1
                /\ token_tracker'.calls = token_tracker.calls + 1
                /\ token_tracker'.vision_total_tokens - token_tracker.vision_total_tokens
                      = token_tracker'.total_tokens - token_tracker.total_tokens
                /\ token_tracker'.total_tokens > token_tracker.total_tokens
                /\ token_tracker'.prompt_tokens =
                      token_tracker.prompt_tokens + response'.usage.prompt_tokens
          /\ ChatCallReturns =>
                /\ token_tracker'.vision_calls = token_tracker.vision_calls
                /\ token_tracker'.vision_total_tokens = token_tracker.vision_total_tokens
                /\ response'.usage.present =>
                      token_tracker'.total_tokens > token_tracker.total_tokens]_vars

\* C10 witness: a vision call and a chat call have both been counted
C10_Witness ==
    /\ token_tracker.vision_calls = 1
    /\ token_tracker.vision_total_tokens = 3
    /\ token_tracker.calls = 2
    /\ token_tracker.total_tokens = 5

----------------------------------------------------------------------------
(* Properties of the matching module *)

LookupReturned ==
    rag_pc = "returned" /\ rag_call.fn = "_lookup_items_batch" /\ ~rag_return.raised

ComputeReturned ==
    rag_pc = "returned" /\ rag_call.fn = "compute_meal_footprint" /\ ~rag_return.raised

\* compute_meal_footprint returned a meal report (not an error value)
ReportReturned == ComputeReturned /\ "items" \in DOMAIN rag_return.value

\* the results the finished call got from _lookup_items_batch
ProducedResults ==
    IF LookupReturned THEN rag_return.value
    ELSE IF ReportReturned THEN rag_return.value.items
    ELSE <<>>

HasNote(r, text) == "notes" \in DOMAIN r /\ r.notes[1] = text

\* C11: every result of _lookup_items_batch has source "database" exactly
\* when matched_item and emissions_kg_co2 are both present and its
\* similarity_score is at least 0.60 (the boundary included); on the
\* early-reject, no-neighbour, below-threshold and exception paths alike.
C11_MatchResultInvariant ==
    \A i \in DOMAIN ProducedResults :
       LET r == ProducedResults[i]
       IN /\ r.source \in {"database", "unknown"}
          /\ r.source = "database"
               <=> /\ r.matched_item # null
                   /\ r.emissions_kg_co2 # null
                   /\ r.similarity_score # null
                   /\ r.similarity_score[1] >= 60

\* a direct lookup returned a match exactly at the boundary next to a result
\* of the exception path
C11_Witness ==
    /\ LookupReturned
    /\ Len(rag_return.value) = 2
    /\ rag_return.value[1].source = "database"
    /\ rag_return.value[1].similarity_score = Some(60)
    /\ rag_return.value[2].source = "unknown"
    /\ HasNote(rag_return.value[2], "Error during lookup: ")

RECURSIVE SumSeq(_)
SumSeq(s) == IF s = <<>> THEN 0 ELSE Head(s) + SumSeq(Tail(s))

EmissionsOrZero(r) == IF r.emissions_kg_co2 = null THEN 0 ELSE r.emissions_kg_co2[1]

\* the index answered the query of result i with a nearest neighbour
Answered(i) ==
    /\ ProducedResults[i].input_name # ""
    /\ ProducedResults[i].mass_g > 0
    /\ i \notin rag_fails
    /\ vectorstore \in {"catalog", "legacy"}

\* the similarity, in hundredths, of the nearest neighbour of result i's name
NeighbourSimilarity(i) == 100 - (Nearest(ProducedResults[i].input_name).distance \div 2)

LowConfidence(i) == Answered(i) /\ NeighbourSimilarity(i) < 60

\* C12: whenever the nearest neighbour's similarity is below 0.60 the result
\* has source "unknown" and matched_item, the emission factor and
\* emissions_kg_co2 are null, and the result adds nothing to the meal total.
C12_LowConfidenceNeverTrusted ==
    /\ \A i \in DOMAIN ProducedResults :
          LowConfidence(i) =>
             /\ ProducedResults[i].source = "unknown"
             /\ ProducedResults[i].matched_item = null
             /\ ProducedResults[i].cf_kg_per_kg = null
             /\ ProducedResults[i].emissions_kg_co2 = null
             /\ ProducedResults[i].similarity_score = Some(NeighbourSimilarity(i))
    /\ ReportReturned =>
          rag_return.value.total_emissions_kg_co2_database_only
             = SumSeq([i \in DOMAIN ProducedResults |->
                          IF LowConfidence(i) THEN 0
                          ELSE EmissionsOrZero(ProducedResults[i])])

\* a report with a 0.59 neighbour left unknown behind a database match that
\* makes up the whole total
C12_Witness ==
    /\ ReportReturned
    /\ Len(rag_return.value.items) = 2
    /\ rag_return.value.items[1].source = "database"
    /\ rag_return.value.items[2].similarity_score = Some(59)
    /\ rag_return.value.items[2].source = "unknown"
    /\ rag_return.value.items[2].mass_g > 0
    /\ rag_return.value.total_emissions_kg_co2_database_only
          = rag_return.value.items[1].emissions_kg_co2[1]

LookupCalled == rag_pc = "returned" /\ rag_call.fn = "_lookup_items_batch"

\* the lookup of item i of a direct call runs into an exception: its query
\* fails, or its neighbour passes the threshold and carries no metadata
LookupFails(i) ==
    /\ rag_call.names[i] # ""
    /\ rag_call.masses_g[i] > 0
    /\ \/ i \in rag_fails
       \/ /\ vectorstore = "legacy"
          /\ 100 - (Nearest(rag_call.names[i]).distance \div 2) >= 60

\* C13 as stated: the lookup never propagates an exception, whatever fails
\* (the index not being ready included), and returns one result per item.
C13_Original ==
    LookupCalled =>
       /\ ~rag_return.raised
       /\ Len(rag_return.value) = Len(rag_call.names)

\* C13, amended: once the index is built the lookup never propagates an
\* exception: a failing query or missing metadata of one item becomes an
\* "unknown" result of that item with the exception text in notes, and every
\* other item of the call still gets its result; only a lookup before the
\* index is built raises (RuntimeError), before any item is looked up.
C13_LookupFailuresContained ==
    /\ LookupCalled /\ vectorstore = NoVectorstore =>
          /\ rag_return.raised
          /\ rag_return.exc = "RuntimeError"
          /\ index_queries = <<>>
    /\ LookupCalled /\ vectorstore # NoVectorstore =>
          /\ ~rag_return.raised
          /\ Len(rag_return.value) = Len(rag_call.names)
          /\ \A i \in DOMAIN rag_return.value :
                LET r == rag_return.value[i]
                IN /\ r.input_name = rag_call.names[i]
                   /\ r.mass_g = rag_call.masses_g[i]
                   /\ LookupFails(i) <=> HasNote(r, "Error during lookup: ")
                   /\ LookupFails(i) =>
                         /\ r.source = "unknown"
                         /\ Len(r.notes) = 2
                         /\ r.notes[2] \in {"QueryError", "KeyError"}
    /\ rag_pc = "returned" /\ rag_call.fn = "compute_meal_footprint"
          /\ rag_return.raised /\ rag_return.exc # "AttributeError" =>
          /\ vectorstore = NoVectorstore
          /\ rag_return.exc = "RuntimeError"

\* a direct lookup whose first query failed and whose second item was matched
C13_Witness ==
    /\ LookupReturned
    /\ Len(rag_return.value) = 2
    /\ 1 \in rag_fails
    /\ HasNote(rag_return.value[1], "Error during lookup: ")
    /\ rag_return.value[1].source = "unknown"
    /\ rag_return.value[2].source = "database"

\* C14: the total of every meal report is the sum of emissions_kg_co2 over
\* exactly the items with source "database"; unknown items add 0 whatever
\* their mass, and a report without database items has total 0.
C14_TotalIsDatabaseSum ==
    ReportReturned =>
       LET items == rag_return.value.items
           total == rag_return.value.total_emissions_kg_co2_database_only
           db == {i \in DOMAIN items : items[i].source = "database"}
       IN /\ total = SumSeq([i \in DOMAIN items |->
                               IF i \in db THEN items[i].emissions_kg_co2[1] ELSE 0])
          /\ db = {} => total = 0

\* a report of two database matches with different emissions
C14_Witness ==
    /\ ReportReturned
    /\ Len(rag_return.value.items) = 2
    /\ rag_return.value.items[1].source = "database"
    /\ rag_return.value.items[2].source = "database"
    /\ rag_return.value.items[1].emissions_kg_co2 = Some(2700)
    /\ rag_return.value.items[2].emissions_kg_co2 = Some(300)
    /\ rag_return.value.total_emissions_kg_co2_database_only = 3000

\* the report says that some item is unknown: the code's any_unknown, which
\* the report carries as a non-empty notes text
HasUnknownItems(report) == report.notes # EmptyText

\* C15: the report's unknown-items flag is set exactly when at least one item
\* of the report has source "unknown"; it is not set for a report whose items
\* are all database matches or that has no items.
C15_UnknownFlag ==
    ReportReturned =>
       LET report == rag_return.value
       IN /\ HasUnknownItems(report)
               <=> \E i \in DOMAIN report.items : report.items[i].source = "unknown"
          /\ report.items = <<>> => ~HasUnknownItems(report)

\* a report whose first item is unknown and whose last item is a database match
C15_Witness ==
    /\ ReportReturned
    /\ Len(rag_return.value.items) = 2
    /\ rag_return.value.items[1].source = "unknown"
    /\ rag_return.value.items[2].source = "database"
    /\ HasUnknownItems(rag_return.value)

ComputeCalled == rag_pc = "returned" /\ rag_call.fn = "compute_meal_footprint"

\* the item list of the payload of the finished call, when it has one
PayloadItems ==
    IF /\ ComputeCalled
       /\ rag_call.payload.json = "object"
       /\ "items" \in DOMAIN rag_call.payload
       /\ rag_call.payload.items.type = "list"
    THEN rag_call.payload.items.value
    ELSE <<>>

\* an item with a name that is not blank and a positive mass in grams or,
\* failing that, in millilitres
IsValid(item) ==
    /\ item.name \notin {"", " "}
    /\ \/ "mass_g" \in DOMAIN item /\ item.mass_g > 0
       \/ "mass_ml" \in DOMAIN item /\ item.mass_ml > 0

ValidPositions == {i \in DOMAIN PayloadItems : IsValid(PayloadItems[i])}

\* C16: an item whose stripped name is empty or whose effective mass is not
\* positive is dropped before matching: the index is queried only with the
\* names of valid items, at most once per valid item, and the report holds
\* no result for a dropped item.
C16_InvalidItemsNeverQueried ==
    ComputeCalled =>
       /\ Len(index_queries) <= Cardinality(ValidPositions)
       /\ \A q \in DOMAIN index_queries :
             \E i \in ValidPositions : index_queries[q] = strip(PayloadItems[i].name)
       /\ ReportReturned =>
             /\ Len(rag_return.value.items) = Cardinality(ValidPositions)
             /\ \A k \in DOMAIN rag_return.value.items :
                   ~HasNote(rag_return.value.items[k], "Empty name or non-positive mass.")

\* a payload with a massless item and a valid one: one query, one result
C16_Witness ==
    /\ ReportReturned
    /\ Len(PayloadItems) = 2
    /\ PayloadItems[1] = [name |-> "tofu", mass_g |-> 0]
    /\ ValidPositions = {2}
    /\ index_queries = <<"beef">>
    /\ Len(rag_return.value.items) = 1

\* the valid items of the payload, in payload order
ValidItems == SelectSeq(PayloadItems, IsValid)

\* the result of looking the item up on its own, with its own query failing or not
Alone(item, fails) ==
    lookup_items_batch(vectorstore, <<strip(item.name)>>, <<EffectiveMass(item)>>,
                       IF fails THEN {1} ELSE {}).results[1]

\* C17: the report's item list holds exactly one result per valid item of the
\* payload, in payload order, and each result is the one the item gets on its
\* own: it does not depend on which other items the meal has or on whether
\* their lookups fail.
C17_OneResultPerValidItem ==
    ReportReturned =>
       /\ Len(rag_return.value.items) = Len(ValidItems)
       /\ \A k \in DOMAIN rag_return.value.items :
             rag_return.value.items[k] = Alone(ValidItems[k], k \in rag_fails)

\* a report of two valid items: the first one's query failed, the second one
\* is matched as it would be alone
C17_Witness ==
    /\ ReportReturned
    /\ Len(ValidItems) = 2
    /\ rag_fails = {1}
    /\ HasNote(rag_return.value.items[1], "Error during lookup: ")
    /\ rag_return.value.items[2].source = "database"
    /\ rag_return.value.items[2].input_name = "tofu"

MassG(item) == IF "mass_g" \in DOMAIN item THEN item.mass_g ELSE 0

HasPositiveMl(item) == "mass_ml" \in DOMAIN item /\ item.mass_ml > 0

\* the effective mass as C18 states it: millilitres only for an absent or zero mass_g
ClaimedMass(item) ==
    IF ("mass_g" \notin DOMAIN item \/ item.mass_g = 0) /\ HasPositiveMl(item)
    THEN item.mass_ml
    ELSE MassG(item)

ClaimedValid(item) == item.name \notin {"", " "} /\ ClaimedMass(item) > 0

\* the effective mass with millilitres for every mass_g that is not positive
FallbackMass(item) ==
    IF ("mass_g" \notin DOMAIN item \/ item.mass_g <= 0) /\ HasPositiveMl(item)
    THEN item.mass_ml
    ELSE MassG(item)

\* C18 as stated: mass_ml is used as grams only when mass_g is absent or zero
\* (and mass_ml is positive); a present non-zero mass_g makes mass_ml ignored,
\* so the report's results carry the masses so defined of the items they leave valid.
C18_Original ==
    ReportReturned =>
       LET claimed == SelectSeq(PayloadItems, ClaimedValid)
       IN /\ Len(rag_return.value.items) = Len(claimed)
          /\ \A k \in DOMAIN rag_return.value.items :
                rag_return.value.items[k].mass_g = ClaimedMass(claimed[k])

\* C18, amended: mass_ml is used as grams when mass_g is absent, zero or
\* negative and mass_ml is positive; a positive mass_g is the effective mass
\* and mass_ml is then ignored.  mass_ml = 200 with mass_g absent, 0 or
\* negative is matched with mass 200 g.
C18_UnitFallback ==
    ReportReturned =>
       /\ Len(rag_return.value.items) = Len(ValidItems)
       /\ \A k \in DOMAIN rag_return.value.items :
             /\ rag_return.value.items[k].mass_g = FallbackMass(ValidItems[k])
             /\ MassG(ValidItems[k]) > 0 =>
                   rag_return.value.items[k].mass_g = ValidItems[k].mass_g

\* millilitres alone, and millilitres next to a negative mass_g, both matched
\* with 200 g
C18_Witness ==
    /\ ReportReturned
    /\ PayloadItems = <<[name |-> "beef", mass_ml |-> 200],
                        [name |-> "beef", mass_g |-> -5, mass_ml |-> 200]>>
    /\ Len(rag_return.value.items) = 2
    /\ rag_return.value.items[1].mass_g = 200
    /\ rag_return.value.items[2].mass_g = 200
    /\ rag_return.value.items[2].source = "database"

\* the payload of the finished call is text that is not JSON, or an object
\* whose `items` is not a list
Malformed ==
    /\ ComputeCalled
    /\ \/ rag_call.payload.json = "invalid"
       \/ /\ rag_call.payload.json = "object"
          /\ "items" \in DOMAIN rag_call.payload
          /\ rag_call.payload.items.type # "list"

\* C19: a malformed payload makes compute_meal_footprint return a structured
\* error: it raises nothing, does not query the index, and the value it
\* returns has an error and neither an item list nor a total.
C19_MalformedPayload ==
    Malformed =>
       /\ ~rag_return.raised
       /\ index_queries = <<>>
       /\ "error" \in DOMAIN rag_return.value
       /\ "items" \notin DOMAIN rag_return.value
       /\ "total_emissions_kg_co2_database_only" \notin DOMAIN rag_return.value

\* an `items` field that is not a list, handed to a module whose index is built
C19_Witness ==
    /\ Malformed
    /\ rag_call.payload.json = "object"
    /\ vectorstore = "catalog"
    /\ ~rag_return.raised
    /\ rag_return.value.error = <<"Expected 'items' to be a list.">>

----------------------------------------------------------------------------
(* Dispatch that cannot reach a callable *)

\* the loop body that ran last could not reach a callable
Unreachable ==
    /\ dispatch # NoDispatch
    /\ ~dispatch.args_parsed \/ dispatch.function_name \notin names_to_functions

\* tool messages of the history that answer the request id
ToolMessagesFor(id) ==
    {i \in DOMAIN messages : messages[i].role = "tool" /\ messages[i].tool_call_id = id}

\* C20: when the raw arguments do not parse, or parse and the name is not
\* registered, no tool is invoked and function_result is the matching
\* structured error ("arguments were not valid JSON", "Unknown tool"); the
\* history still gets exactly one tool message with the request's id, and
\* it is the message appended last.
C20_UnreachableCallable ==
    Unreachable =>
       /\ dispatch.invocations = 0
       /\ ~dispatch.args_parsed => dispatch.function_result = "error_invalid_json"
       /\ dispatch.args_parsed => dispatch.function_result = "error_unknown_tool"
       /\ tool_idx - 1 \in DOMAIN response.tool_calls
       /\ ToolMessagesFor(response.tool_calls[tool_idx - 1]) = {Len(messages)}

\* the second request of a response named an unregistered tool with
\* well-formed arguments
C20_Witness ==
    /\ Unreachable
    /\ dispatch.args_parsed
    /\ dispatch.function_name = "no_such_tool"
    /\ dispatch.function_result = "error_unknown_tool"
    /\ tool_idx = 3
    /\ messages[Len(messages)].tool_call_id = response.tool_calls[2]

----------------------------------------------------------------------------
(* Repeated calls of compute_meal_footprint *)

\* the second call of the same payload has finished
Repeated ==
    /\ rag_pc = "returned"
    /\ rag_call.fn = "compute_meal_footprint"
    /\ rag_previous # NoPrevious

----------------------------------------------------------------------------
(* The shared index at process start *)

Building == {s \in Sessions : session_pc[s] = "building"}

\* C22: the shared index is built once per process and never rebuilt or
\* reassigned when further sessions are constructed, and the build step is
\* guarded: no two constructions execute it at the same time.
C22_BuiltOnceAndGuarded ==
    /\ session_builds <= 1
    /\ Cardinality(Building) <= 1

----------------------------------------------------------------------------
(* One chat() at a time *)

UserPositions(msgs) == {i \in 1..Len(msgs) : msgs[i].role = "user"}

----------------------------------------------------------------------------
(* Who writes the message history *)

\* the step is taken by the "Analyze picture" handler of the presentation layer
PresentationStep == pc = "picture"

\* the orchestrator appends one message: the user message of chat(), the
\* assistant message of a response, or the tool message of a request
OrchestratorAppend ==
    \E m \in {UserMsg(user_message),
              AssistantMsg(response.content, response.tool_calls)}
             \cup {ToolMsg(id, "function_result") : id \in 1..next_id} :
       /\ messages' = Append(messages, m)
       /\ m.role = "user" <=> pc = "idle"
       /\ m.role = "assistant" <=> pc = "respond"
       /\ m.role = "tool" <=> pc = "tools"

\* C24 as stated: every change of `messages` is made by an operation of the
\* orchestrator; the image-analysis path of the presentation layer never
\* appends to the history.
C24_Original == [][messages' # messages => ~PresentationStep]_vars

\* C24: `messages` is written by the orchestrator's operations and by the image
\* path of the presentation layer, and by nothing else: a change made by the
\* orchestrator appends one message (the user message of chat(), the assistant
\* message of a response, a tool message), and a change made by the image path
\* happens only when the vision call detected items and appends exactly one
\* user message and one assistant message without tool calls; no entry is
\* removed or rewritten.
C24_HistoryWriters ==
    [][messages' # messages =>
          /\ IsPrefix(messages, messages')
          /\ ~PresentationStep => OrchestratorAppend
          /\ PresentationStep =>
                /\ response.content = <<"items">>
                /\ messages' = messages \o
                      <<UserMsg(detected_text), AssistantMsg(confirm_text, <<>>)>>]_vars

\* C24 witness: the image path inserted its two messages and a chat() call of
\* the orchestrator has appended after them
C24_Witness ==
    \E i \in 1..(Len(messages) - 2) :
       /\ messages[i] = UserMsg(detected_text)
       /\ messages[i + 1] = AssistantMsg(confirm_text, <<>>)
       /\ messages[i + 2] = UserMsg(user_message)

----------------------------------------------------------------------------
(* A failing model call *)

\* a model call is made and no response comes back
ModelCallFails == pc = "call" /\ model_calls' = model_calls + 1 /\ pc' # "respond"

\* chat() has ended with the exception of the model call
ChatRaised == pc = "idle" /\ outcome.kind = "model_error"

\* C25: when the model call raises, in whichever iteration of the step loop,
\* the exception ends chat(): the failing call leaves `messages`, the display
\* history and the usage accumulator as they were, the call does not return the
\* fallback string (it returns nothing), and after it the last entry of
\* `messages` is still the user message or the tool message that preceded the
\* call and the last displayed entry is the user's.
C25_ModelFailurePropagates ==
    /\ [](ChatRaised =>
             /\ messages[Len(messages)].role \in {"user", "tool"}
             /\ display_history[Len(display_history)].role = "user")
    /\ [][ModelCallFails =>
             /\ pc' = "idle"
             /\ outcome' = [kind |-> "model_error", content |-> EmptyText]
             /\ outcome'.content # fallback
             /\ messages' = messages
             /\ display_history' = display_history
             /\ token_tracker' = token_tracker]_vars

\* C25 witness: the model call of the third iteration raised, after two
\* iterations that served tool calls and were accounted for
C25_Witness ==
    /\ ChatRaised
    /\ loops = 2
    /\ turn_calls = 3
    /\ token_tracker.calls = 2
    /\ messages[Len(messages)].role = "tool"

----------------------------------------------------------------------------
(* The index before warm-up *)

\* the step is a warm_up_rag() call that raised
WarmUpFailed == rag_pc' = "returned" /\ rag_call'.fn = "warm_up_rag" /\ rag_return'.raised

\* the step is a warm_up_rag() call that returned
WarmUpCompleted == rag_pc' = "returned" /\ rag_call'.fn = "warm_up_rag" /\ ~rag_return'.raised

\* C26: a lookup made while the index is not built raises the not-ready error
\* (RuntimeError) and returns no results and queries nothing, for every list of
\* items, the empty list included; the index is not built until a warm_up_rag()
\* call completes, and a warm_up_rag() call that fails leaves the index as it
\* was, hence not ready when it was not ready.
C26_NotReadyBeforeWarmUp ==
    /\ [](LookupCalled /\ vectorstore = NoVectorstore =>
             /\ rag_return = [raised |-> TRUE, exc |-> "RuntimeError", value |-> <<>>]
             /\ index_queries = <<>>)
    /\ [][/\ WarmUpFailed => vectorstore' = vectorstore
          /\ vectorstore' # vectorstore => WarmUpCompleted]_vars

\* C26 witness: a failed warm-up left the index unbuilt, and the lookup of an
\* empty list then raised
C26_Witness ==
    /\ LookupCalled
    /\ vectorstore = NoVectorstore
    /\ rag_call.names = <<>>
    /\ rag_return.raised
    /\ rag_return.exc = "RuntimeError"

----------------------------------------------------------------------------
(* The calling-convention fallback *)

\* the request of the last dispatch reached fn(**args)
CallableInvoked == dispatch.args_parsed /\ dispatch.function_name \in names_to_functions

\* C27: the registered callable is invoked with the parsed arguments as named
\* fields first, and a second time, with the parsed structure as one positional
\* value, only if the first invocation failed with a calling-convention
\* mismatch (the arguments could not be bound to the parameters); a failure of
\* the second invocation yields a structured error.  So a callable is invoked at
\* most twice per request, and exactly once whenever its first invocation bound
\* its arguments, however the body then ended.
C27_CallingConventionFallback ==
    /\ dispatch.invocations <= 2
    /\ CallableInvoked => dispatch.invocations >= 1
    /\ CallableInvoked /\ dispatch.bound => dispatch.invocations = 1
    /\ dispatch.invocations = 2 =>
          dispatch.function_result \in {"tool_output", "error_exception"}

----------------------------------------------------------------------------
(* The two transcripts *)

\* chat() has returned a text (it did not raise)
ChatReturned == pc = "idle" /\ outcome.kind \in {"answer", "fallback"}

\* C28: the report and the fallback text live in the user-facing transcript
\* only: no entry of `messages` contains the report or the fallback, the
\* assistant entry appended for a final answer is the model's message as it
\* came, and what chat() returns is the content of the last display_history
\* entry, an assistant entry.
C28_ReportOnlyInTranscript ==
    /\ \A i \in 1..Len(messages) :
          /\ ~HasPart(messages[i].content, "token_report")
          /\ ~HasPart(messages[i].content, "fallback")
    /\ ChatReturned =>
          /\ display_history[Len(display_history)] = Display("assistant", outcome.content)
    /\ ChatReturned /\ outcome.kind = "answer" =>
          /\ messages[Len(messages)] = AssistantMsg(response.content, <<>>)
          /\ outcome.content \in {ContentOrEmpty(response.content),
                                  ContentOrEmpty(response.content) \o <<"token_report">>}

\* C28 witness: chat() returned a final answer with the report appended, after
\* an earlier call of the session ended with the fallback
C28_Witness ==
    /\ ChatReturned
    /\ HasPart(outcome.content, "token_report")
    /\ \E i \in 1..Len(display_history) : display_history[i].content = fallback
    /\ messages[Len(messages)].content = <<"text">>

----------------------------------------------------------------------------
(* The health-analysis flag *)

ToolMessages == {i \in 1..Len(messages) : messages[i].role = "tool"}

\* C29: the flag is set as soon as a request named evaluate_meal_healthiness is
\* taken up, whether or not its arguments parse and however the tool ends, and
\* it is never cleared afterwards (it is set exactly when such a request has been
\* seen in the session); so once such a request has been seen, a final answer
\* returned by chat() leaves the one report in the transcript.
C29_FlagSetWhenSeen ==
    /\ dispatch.function_name = HEALTH_TOOL => health_analysis_called
    /\ health_requested <=> health_analysis_called
    /\ token_report_sent => health_analysis_called
    /\ pc = "idle" /\ outcome.kind = "answer" /\ health_analysis_called =>
          /\ token_report_sent
          /\ ReportCount(display_history) = 1

\* C29 witness: the only request served so far named evaluate_meal_healthiness
\* and had arguments that are not JSON; the flag is set and the report is due
C29_Witness ==
    /\ pc = "call"
    /\ dispatch.function_name = HEALTH_TOOL
    /\ ~dispatch.args_parsed
    /\ dispatch.function_result = "error_invalid_json"
    /\ Cardinality(ToolMessages) = 1
    /\ health_analysis_called
    /\ ReportDue

----------------------------------------------------------------------------
(* The nutrition cache *)

NutritionReturned == nutrition_pc = "returned"

\* the cache key of the call in progress
CallKey == lower(strip(nutrition_call.food_name))

\* what earlier calls with the key of the call in progress returned
EarlierReturns == {e.value : e \in {l \in nutrition_log : l.key = CallKey}}

\* C30: once get_food_nutrition has returned for a name that is not empty,
\* whatever the outcome was (nutrients, no food, an HTTP error, a network or
\* credential error), every later call whose name has the same key (trimmed,
\* lower-cased) returns that same result and sends no request to the API; a
\* name that is empty after trimming is answered without a request and is
\* never a key of the cache.
C30_CacheStickyForEveryOutcome ==
    /\ NutritionReturned /\ CallKey # "" /\ EarlierReturns # {} =>
          /\ EarlierReturns = {nutrition_return.value}
          /\ nutrition_return.requests = 0
    /\ NutritionReturned /\ CallKey = "" =>
          /\ nutrition_return.requests = 0
          /\ nutrition_return.value.notes = "no_name"
    /\ \A e \in nutrition_cache : e.key # ""
    /\ \A k \in {l.key : l \in nutrition_log} :
          Cardinality({l \in nutrition_log : l.key = k}) = 1

\* C30 witness: a call for "Beef" is answered from the cache with the network
\* error that an earlier call for " beef " ran into
C30_Witness ==
    /\ NutritionReturned
    /\ nutrition_call.food_name = "Beef"
    /\ nutrition_return.value = NutritionResult("beef", FALSE, "network_or_api_error")
    /\ nutrition_return.requests = 0
    /\ EarlierReturns = {nutrition_return.value}

====
